---- MODULE Spec2Model ----
(***************************************************************************)
(* Model of the FFmpeg video processing service (src/main.py).             *)
(*                                                                         *)
(* The service is an ASGI application: every request is a coroutine on     *)
(* the event loop of the worker process that accepted it.  A coroutine     *)
(* gives up the loop only at an `await`; everything between two awaits     *)
(* (subprocess.run included) holds the loop of its worker.  Worker         *)
(* processes share nothing but the two directories temp/ and cache/, and   *)
(* interleave at the granularity of file system calls.                     *)
(*                                                                         *)
(* Environment: open()/write() may fail (I/O error), the ffmpeg binary     *)
(* may fail to start, ffmpeg may exit with any status; a zero exit status  *)
(* leaves the output file in place.  While requests are served, removing  *)
(* a file fails only when the file is no longer there.  The response       *)
(* boundary runs the background task of a FileResponse once transmission   *)
(* has ended.                                                              *)
(*                                                                         *)
(* Two functions are also checked on their own, over all their arguments:  *)
(* the construction of the command line (SpecCmd) and the release of a     *)
(* workspace, files that cannot be removed included (SpecCleanup).         *)
(***************************************************************************)
EXTENDS Integers, Sequences, FiniteSets, TLC

(* ------------------------------- bounds -------------------------------- *)
MaxReq == 2
NumWorkers == 2
MaxParams == 4      \* longest extra-argument string of a command line checked on its own
MaxPaths == 3       \* most arguments of a release checked on its own

Requests == 1..MaxReq
Workers == 1..NumWorkers

(* -------------------------------- state -------------------------------- *)
VARIABLES
    cache,      \* cache/ : path |-> bytes
    temp,       \* temp/  : path |-> bytes
    req,        \* one record per request: its handler's position and locals
    loop,       \* loop[w]: the requests (none or one) whose handler holds the loop of w
    uuids,      \* the uuid4 values drawn so far
    stored,     \* history: the identities uploaded since their last delete
    call        \* a single call of a function of main.py: arguments and result

vars == <<cache, temp, req, loop, uuids, stored, call>>

(* ------------------------------- inputs -------------------------------- *)
Byte == {0}

\* request bodies: the empty file and a one-byte file
Contents == {<<>>, <<0>>}
\* bodies and file names sent to /convert
Bodies == {<<0>>}
ConvertNames == {<<"v", ".", "A">>}

\* file names a client may send; <<>> stands for an absent file name
Filenames == {<<>>, <<"v", ".", "a">>}
Formats == {<<"m", "p", "4">>}

Transcoded == <<7>>

(* --------------------------- pure functions ---------------------------- *)
\* hashlib.sha256(content).hexdigest(): a digest, injective on the contents
\* of the model (collision resistance)
RECURSIVE sha256(_)
sha256(content) ==
    IF content = <<>> THEN 1
    ELSE sha256(SubSeq(content, 1, Len(content) - 1)) * (Cardinality(Byte) + 1)
            + content[Len(content)] + 1

RECURSIVE rfind(_, _)
rfind(s, ch) ==
    IF s = <<>> THEN 0
    ELSE IF s[Len(s)] = ch THEN Len(s)
    ELSE rfind(SubSeq(s, 1, Len(s) - 1), ch)

\* pathlib: Path(name).suffix
suffix(name) ==
    LET i == rfind(name, ".")
    IN  IF 1 < i /\ i < Len(name) THEN SubSeq(name, i, Len(name)) ELSE <<>>

\* pathlib: Path(name).stem
stem(name) ==
    LET i == rfind(name, ".")
    IN  IF 1 < i /\ i < Len(name) THEN SubSeq(name, 1, i - 1) ELSE name

lower(s) == [i \in 1..Len(s) |-> IF s[i] = "A" THEN "a" ELSE s[i]]

\* upload_video: filename = file.filename or "video.dat"
upload_filename(filename) ==
    IF filename = <<>> THEN <<"v", "i", "d", "e", "o", ".", "d", "a", "t">> ELSE filename

\* upload_video: ext = Path(filename).suffix or ".mp4"
upload_ext(filename) ==
    LET s == suffix(upload_filename(filename))
    IN  IF s = <<>> THEN <<".", "m", "p", "4">> ELSE s

cache_path_numbered(video_hash, ext) ==
    <<video_hash, ".", Cardinality({q \in DOMAIN req : req[q].pc # "idle"})>> \o ext

\* upload_video: file_path = CACHE_DIR / f"{video_hash}{ext}"
cache_path(video_hash, ext) == <<video_hash>> \o ext

\* convert_video: filename = file.filename or f"uploaded.{output_format}"
convert_filename(filename, output_format) ==
    IF filename = <<>> THEN <<"u", "p", ".">> \o output_format ELSE filename

\* convert_video: input_extension
input_extension(filename) ==
    LET i == rfind(filename, ".")
    IN  IF i = 0 THEN <<"t", "m", "p">>
        ELSE lower(SubSeq(filename, i + 1, Len(filename)))

\* convert_video: input_path = TEMP_DIR / f"{unique_id}_input.{input_extension}"
convert_input_path(unique_id, ext) == <<unique_id, "_input", ".">> \o ext

\* convert_from_hash: input_path = TEMP_DIR / f"{unique_id}_input{source_path.suffix}"
hash_input_path(unique_id, source_path) == <<unique_id, "_input">> \o suffix(source_path)

\* output_path = TEMP_DIR / f"{unique_id}_output.{output_format}"
make_output_path(unique_id, output_format) == <<unique_id, "_output", ".">> \o output_format

glob_all(dir, video_hash) == dir

\* CACHE_DIR.glob(f"{video_hash}.*") over the directory listing `dir`
glob(dir, video_hash) ==
    {p \in dir : Len(p) >= 2 /\ p[1] = video_hash /\ p[2] = "."}

(* ----------------------------- file system ----------------------------- *)
\* a directory is a function from the paths that exist to their bytes
WriteFile(fs, path, data) ==
    [p \in DOMAIN fs \cup {path} |-> IF p = path THEN data ELSE fs[p]]

RemoveFiles(fs, paths) == [p \in DOMAIN fs \ paths |-> fs[p]]

Prefixes(data) == {SubSeq(data, 1, n) : n \in 0..Len(data)}
ProperPrefixes(data) == Prefixes(data) \ {data}

cleanup_input_only(fs, paths) ==
    RemoveFiles(fs, {p \in paths : p # <<>> /\ p \in DOMAIN fs /\ p[2] = "_input"})

\* os.remove(path): the file is removed, or the call raises and leaves it
os_remove(fs, path, undeletable) ==
    IF path \in undeletable \/ path \notin DOMAIN fs
    THEN [fs |-> fs, raised |-> TRUE]
    ELSE [fs |-> RemoveFiles(fs, {path}), raised |-> FALSE]

except_reraise(outcome) == outcome

\* try: ... except: pass
except_pass(outcome) == [outcome EXCEPT !.raised = FALSE]

\* for path in paths: if path and os.path.exists(path): try: os.remove(path)
\* except: pass.  An exception that leaves the loop body ends the call.
RECURSIVE cleanup_each(_, _, _)
cleanup_each(fs, paths, undeletable) ==
    IF paths = <<>> THEN [fs |-> fs, raised |-> FALSE]
    ELSE LET path == Head(paths)
             outcome == IF path # <<>> /\ path \in DOMAIN fs
                        THEN except_pass(os_remove(fs, path, undeletable))
                        ELSE [fs |-> fs, raised |-> FALSE]
         IN  IF outcome.raised THEN outcome
             ELSE cleanup_each(outcome.fs, Tail(paths), undeletable)

\* the arguments of a call, in some order
RECURSIVE SeqOf(_)
SeqOf(S) ==
    IF S = {} THEN <<>>
    ELSE LET x == CHOOSE x \in S : TRUE IN <<x>> \o SeqOf(S \ {x})

\* cleanup_files_sync(*paths) while requests are served: every file can be removed
cleanup_files_sync(fs, paths) == cleanup_each(fs, SeqOf(paths), {}).fs

NoPath == <<>>

\* what a handler keeps of subprocess.run's result: returncode and stderr
NoResult == [returncode |-> 0, stderr |-> ""]
\* the detail of an HTTPException: its fields, and the file paths its text names
NoBody == [error |-> "", paths |-> {}]

IdleReq ==
    [kind |-> "none", pc |-> "idle", worker |-> 0,
     content |-> <<>>, video_hash |-> 0, ext |-> <<>>, output_format |-> <<>>,
     file_path |-> NoPath, source_path |-> NoPath, files |-> {},
     input_path |-> NoPath, output_path |-> NoPath,
     background |-> {}, transmit |-> "none",
     result |-> NoResult, body |-> NoBody,
     status |-> 0, detail |-> "none", exc |-> "none", deleted |-> 0, released |-> 0]

\* a cache directory left by earlier runs: complete files named by their digest
\* (the one-byte file, under any of its extensions)
StoredNames == {cache_path(sha256(<<0>>), upload_ext(f)) : f \in Filenames}

ContentOf(h) == CHOOSE c \in Contents : sha256(c) = h

\* no function is called on its own while requests are served
NoCall == [op |-> "none"]

InitialCaches ==
    {[p \in names |-> ContentOf(p[1])] : names \in SUBSET StoredNames}

Init ==
    /\ req = [r \in Requests |-> IdleReq]
    /\ cache \in InitialCaches
    /\ temp = [p \in {} |-> <<>>]
    /\ loop = [w \in Workers |-> {}]
    /\ uuids = {}
    /\ stored = {p[1] : p \in DOMAIN cache}
    /\ call = NoCall

RepeatedUuids == {101}

\* uuid.uuid4(): a value no earlier call returned
FreshUuids == {100 + Cardinality(uuids) + 1}

Set(r, rec) == req' = [req EXCEPT ![r] = rec]
Hold(r) == loop' = [loop EXCEPT ![req[r].worker] = {r}]
Free(r) == loop' = [loop EXCEPT ![req[r].worker] = {}]
LoopFree(w) == loop[w] = {}

\* requests are numbered in the order their handlers start, workers in the
\* order they first accept a request
Arrives(r, w) ==
    /\ req[r].pc = "idle"
    /\ \A q \in Requests : q < r => req[q].pc # "idle"
    /\ \A v \in Workers : v < w => \E q \in Requests : req[q].worker = v
    /\ LoopFree(w)

\* a request worker w has accepted; its handler starts when the loop of w is free
Queued(r, w) ==
    /\ req[r].pc = "idle"
    /\ \A q \in Requests : q < r => req[q].pc # "idle"
    /\ \A v \in Workers : v < w => \E q \in Requests : req[q].worker = v

\* the handler leaves by an HTTPException
Fail(rec, status, detail) ==
    [rec EXCEPT !.pc = "error", !.status = status, !.detail = detail]

\* the handler leaves by an exception nothing catches: the server answers 500
Unhandled(rec, exc) ==
    [Fail(rec, 500, "internal_server_error") EXCEPT
        !.exc = exc, !.body = [error |-> "Internal Server Error", paths |-> {}]]

(* ------------------------------- upload -------------------------------- *)
\* upload_video up to `await file.read()`
UploadStart(r, w, content, filename) ==
    /\ Arrives(r, w)
    /\ Set(r, [IdleReq EXCEPT !.kind = "upload", !.pc = "up_await", !.worker = w,
                              !.content = content,
                              !.ext = upload_ext(filename)])
    /\ UNCHANGED <<cache, temp, loop, uuids, stored, call>>

\* upload_video: hash, file_path, open(file_path, "wb")
UploadOpen(r) ==
    /\ req[r].pc = "up_await"
    /\ LoopFree(req[r].worker)
    /\ LET video_hash == sha256(req[r].content)
           file_path == cache_path(video_hash, req[r].ext)
       IN  \/ /\ cache' = WriteFile(cache, file_path, <<>>)
              /\ Set(r, [req[r] EXCEPT !.pc = "up_write", !.video_hash = video_hash,
                                       !.file_path = file_path])
              /\ Hold(r)
           \/ /\ Set(r, Unhandled(req[r], "open_cache"))
              /\ UNCHANGED <<cache, loop>>
    /\ UNCHANGED <<temp, uuids, stored, call>>

\* what a write through a descriptor opened earlier leaves in the directory:
\* an unlinked file stays unlinked
WriteOpen(fs, path, data) == IF path \in DOMAIN fs THEN WriteFile(fs, path, data) ELSE fs

\* upload_video: f.write(content), close, return UploadResponse
UploadWrite(r) ==
    /\ req[r].pc = "up_write"
    /\ loop[req[r].worker] = {r}
    /\ \/ /\ cache' = WriteOpen(cache, req[r].file_path, req[r].content)
          /\ Set(r, [req[r] EXCEPT !.pc = "done", !.status = 200])
          /\ stored' = stored \cup {req[r].video_hash}
       \/ \E part \in ProperPrefixes(req[r].content) :
            /\ cache' = WriteOpen(cache, req[r].file_path, part)
            /\ Set(r, Unhandled(req[r], "write_cache"))
            /\ UNCHANGED stored
    /\ Free(r)
    /\ UNCHANGED <<temp, uuids, call>>

(* --------------------------- convert (direct) -------------------------- *)
Hashes == {sha256(c) : c \in Contents}

\* str(e) of the OSError of a failed open / write / process start: open names
\* the file it could not open
str_e(exc, path) ==
    [error |-> exc, paths |-> IF exc = "open_input" THEN {path} ELSE {}]

ffmpeg_failed_no_stderr(result) ==
    [error |-> "FFmpeg conversion failed", stderr |-> "", paths |-> {}]

\* detail={"error": "FFmpeg conversion failed", "stderr": result.stderr}
ffmpeg_failed_detail(result) ==
    [error |-> "FFmpeg conversion failed", stderr |-> result.stderr, paths |-> {}]

\* convert_video: `except HTTPException` and `except Exception`: release, then raise
convert_except(rec, detail, exc) ==
    [Fail(rec, 500, detail) EXCEPT
        !.exc = exc, !.released = @ + 1,
        !.body = IF detail = "ffmpeg_failed" THEN ffmpeg_failed_detail(rec.result)
                 ELSE str_e(exc, rec.input_path)]

workspace_and_source(rec) == {rec.input_path, rec.output_path, rec.source_path}

\* the arguments of cleanup_files_sync and cleanup_files: input_path, output_path
workspace_paths(rec) == {rec.input_path, rec.output_path}

\* convert_video from its first line to `await file.read()`
ConvertStart(r, w, content, filename, output_format) ==
    /\ Arrives(r, w)
    /\ \E unique_id \in FreshUuids :
        LET name == convert_filename(filename, output_format)
            input_path == convert_input_path(unique_id, input_extension(name))
            output_path == make_output_path(unique_id, output_format)
            rec == [IdleReq EXCEPT !.kind = "convert", !.worker = w,
                                   !.content = content,
                                   !.output_format = output_format,
                                   !.input_path = input_path,
                                   !.output_path = output_path]
        IN  /\ uuids' = uuids \cup {unique_id}
            /\ \/ \* open(input_path, "wb")
                  /\ temp' = WriteFile(temp, input_path, <<>>)
                  /\ cache' = cache
                  /\ Set(r, [rec EXCEPT !.pc = "cv_await"])
               \/ \* open raises
                  /\ temp' = cleanup_files_sync(temp, workspace_paths(rec))
                  /\ cache' = cleanup_files_sync(cache, workspace_paths(rec))
                  /\ Set(r, convert_except(rec, "str(e)", "open_input"))
    /\ UNCHANGED <<loop, stored, call>>

\* convert_video: buffer.write(...), the command line, subprocess.run starts
ConvertStage(r) ==
    /\ req[r].pc = "cv_await"
    /\ LoopFree(req[r].worker)
    /\ LET rec == req[r]
           paths == workspace_paths(rec)
           written == WriteFile(temp, rec.input_path, rec.content)
       IN  \/ \* the write raises part way
              \E part \in Prefixes(rec.content) :
                /\ temp' = cleanup_files_sync(WriteFile(temp, rec.input_path, part), paths)
                /\ cache' = cleanup_files_sync(cache, paths)
                /\ Set(r, convert_except(rec, "str(e)", "write_input"))
                /\ UNCHANGED loop
           \/ \* ffmpeg cannot be started
              /\ temp' = cleanup_files_sync(written, paths)
              /\ cache' = cleanup_files_sync(cache, paths)
              /\ Set(r, convert_except(rec, "str(e)", "spawn"))
              /\ UNCHANGED loop
           \/ \* ffmpeg runs
              /\ temp' = written
              /\ cache' = cache
              /\ Set(r, [rec EXCEPT !.pc = "run"])
              /\ Hold(r)
    /\ UNCHANGED <<uuids, stored, call>>

cleanup_files_dropped(paths) == {}

\* cleanup_files(*paths): the background task of the response
cleanup_files(paths) == paths

\* what ffmpeg leaves at output_path when it exits non-zero
FailedOutputs == {<<>>, <<7>>}

\* subprocess.run(cmd, capture_output=True, text=True) returns: exit status 0
\* with the output written, or a non-zero status with any stderr text and
\* no output, or some output; `output` is what the run left at output_path
\* (no file, or one file with these bytes)
Stderrs == {"boom"}
ToolResults ==
    {[returncode |-> 0, stderr |-> "", output |-> <<Transcoded>>]}
    \cup {[returncode |-> c, stderr |-> e, output |-> o] :
            c \in {1, 2}, e \in Stderrs, o \in {<<>>} \cup {<<d>> : d \in FailedOutputs}}

AfterRun(fs, output_path, result) ==
    IF result.output = <<>> THEN fs ELSE WriteFile(fs, output_path, result.output[1])

Captured(result) == [returncode |-> result.returncode, stderr |-> result.stderr]

tool_failed_by_output(result) == result.output = <<>>

\* if result.returncode != 0
tool_failed(result) == result.returncode # 0

\* convert_video: subprocess.run returns
ConvertRun(r) ==
    /\ req[r].kind = "convert"
    /\ req[r].pc = "run"
    /\ loop[req[r].worker] = {r}
    /\ LET rec == req[r]
           paths == workspace_paths(rec)
       IN  \E result \in ToolResults :
            LET ran == [rec EXCEPT !.result = Captured(result)]
                left == AfterRun(temp, rec.output_path, result)
            IN  IF tool_failed(result)
                THEN \* raise HTTPException, caught by `except HTTPException`
                     /\ temp' = cleanup_files_sync(left, paths)
                     /\ cache' = cleanup_files_sync(cache, paths)
                     /\ Set(r, convert_except(ran, "ffmpeg_failed", "none"))
                ELSE \* FileResponse
                     /\ temp' = left
                     /\ cache' = cache
                     /\ Set(r, [ran EXCEPT !.pc = "delivering", !.status = 200,
                                           !.background = cleanup_files(paths)])
    /\ Free(r)
    /\ UNCHANGED <<uuids, stored, call>>

(* -------------------------- convert by identity ------------------------ *)
\* convert_from_hash: the glob, the 404, the paths
HashStart(r, w, video_hash, output_format) ==
    /\ Arrives(r, w)
    /\ LET cached_files == glob(DOMAIN cache, video_hash)
           rec == [IdleReq EXCEPT !.kind = "convert_hash", !.worker = w,
                                  !.video_hash = video_hash,
                                  !.output_format = output_format]
       IN  IF cached_files = {}
           THEN /\ Set(r, Fail(rec, 404, "not_found"))
                /\ UNCHANGED <<loop, uuids>>
           ELSE \E source_path \in cached_files, unique_id \in FreshUuids :
                /\ Set(r, [rec EXCEPT !.pc = "ch_stage",
                                      !.source_path = source_path,
                                      !.input_path = hash_input_path(unique_id, source_path),
                                      !.output_path = make_output_path(unique_id, output_format)])
                /\ loop' = [loop EXCEPT ![w] = {r}]
                /\ uuids' = uuids \cup {unique_id}
    /\ UNCHANGED <<cache, temp, stored, call>>

\* convert_from_hash: the copy to temp, the command line, subprocess.run starts;
\* nothing here is inside a try
HashStage(r) ==
    /\ req[r].pc = "ch_stage"
    /\ loop[req[r].worker] = {r}
    /\ LET rec == req[r]
           opened == WriteFile(temp, rec.input_path, <<>>)
       IN  \/ \* open(input_path, "wb") raises
              /\ temp' = temp
              /\ Set(r, Unhandled(rec, "open_input"))
              /\ Free(r)
           \/ \* open(source_path, "rb") raises: the file is gone
              /\ rec.source_path \notin DOMAIN cache
              /\ temp' = opened
              /\ Set(r, Unhandled(rec, "open_source"))
              /\ Free(r)
           \/ \* the write raises part way
              /\ rec.source_path \in DOMAIN cache
              /\ \E part \in Prefixes(cache[rec.source_path]) :
                    temp' = WriteFile(opened, rec.input_path, part)
              /\ Set(r, Unhandled(rec, "write_input"))
              /\ Free(r)
           \/ \* the copy is made, ffmpeg cannot be started
              /\ rec.source_path \in DOMAIN cache
              /\ temp' = WriteFile(opened, rec.input_path, cache[rec.source_path])
              /\ Set(r, Unhandled(rec, "spawn"))
              /\ Free(r)
           \/ \* the copy is made, ffmpeg runs
              /\ rec.source_path \in DOMAIN cache
              /\ temp' = WriteFile(opened, rec.input_path, cache[rec.source_path])
              /\ Set(r, [rec EXCEPT !.pc = "run"])
              /\ UNCHANGED loop
    /\ UNCHANGED <<cache, uuids, stored, call>>

\* convert_from_hash: the tool failed: release, then raise
hash_tool_failed(rec) ==
    [Fail(rec, 500, "ffmpeg_failed") EXCEPT
        !.released = @ + 1, !.body = ffmpeg_failed_detail(rec.result)]

\* convert_from_hash: subprocess.run returns
HashRun(r) ==
    /\ req[r].kind = "convert_hash"
    /\ req[r].pc = "run"
    /\ loop[req[r].worker] = {r}
    /\ LET rec == req[r]
           paths == workspace_paths(rec)
       IN  \E result \in ToolResults :
            LET ran == [rec EXCEPT !.result = Captured(result)]
                left == AfterRun(temp, rec.output_path, result)
            IN  IF tool_failed(result)
                THEN /\ temp' = cleanup_files_sync(left, paths)
                     /\ cache' = cleanup_files_sync(cache, paths)
                     /\ Set(r, hash_tool_failed(ran))
                ELSE /\ temp' = left
                     /\ cache' = cache
                     /\ Set(r, [ran EXCEPT !.pc = "delivering", !.status = 200,
                                           !.background = cleanup_files(paths)])
    /\ Free(r)
    /\ UNCHANGED <<uuids, stored, call>>

(* -------------------------- response boundary -------------------------- *)
Outcomes == {"complete", "disconnect"}

\* FileResponse: the body is sent until it is complete or the client is gone
Transmit(r) ==
    /\ req[r].pc = "delivering"
    /\ LoopFree(req[r].worker)
    /\ \E outcome \in Outcomes : Set(r, [req[r] EXCEPT !.pc = "sent", !.transmit = outcome])
    /\ UNCHANGED <<cache, temp, loop, uuids, stored, call>>

\* FileResponse: the background task runs once transmission has ended
Background(r) ==
    /\ req[r].pc = "sent"
    /\ LoopFree(req[r].worker)
    /\ temp' = cleanup_files_sync(temp, req[r].background)
    /\ cache' = cleanup_files_sync(cache, req[r].background)
    /\ Set(r, [req[r] EXCEPT !.pc = "done", !.background = {}, !.released = @ + 1])
    /\ UNCHANGED <<loop, uuids, stored, call>>

(* ------------------------------- delete -------------------------------- *)
\* delete_video: the glob and the 404
DeleteStart(r, w, video_hash) ==
    /\ Arrives(r, w)
    /\ LET files == glob(DOMAIN cache, video_hash)
           rec == [IdleReq EXCEPT !.kind = "delete", !.worker = w,
                                  !.video_hash = video_hash]
       IN  IF files = {}
           THEN /\ Set(r, Fail(rec, 404, "not_found"))
                /\ UNCHANGED loop
           ELSE /\ Set(r, [rec EXCEPT !.pc = "del_unlink", !.files = files])
                /\ loop' = [loop EXCEPT ![w] = {r}]
    /\ UNCHANGED <<cache, temp, uuids, stored, call>>

\* delete_video: the unlink loop (an unlink of a missing file raises and is
\* not counted) and the response
DeleteUnlink(r) ==
    /\ req[r].pc = "del_unlink"
    /\ loop[req[r].worker] = {r}
    /\ cache' = RemoveFiles(cache, req[r].files)
    /\ stored' = stored \ {req[r].video_hash}
    /\ Set(r, [req[r] EXCEPT !.pc = "done", !.status = 200,
                             !.deleted = Cardinality(req[r].files \cap DOMAIN cache)])
    /\ Free(r)
    /\ UNCHANGED <<temp, uuids, call>>

(* ------------------------------- health -------------------------------- *)
\* GET /health reaches worker w
HealthArrive(r, w) ==
    /\ Queued(r, w)
    /\ Set(r, [IdleReq EXCEPT !.kind = "health", !.pc = "h_wait", !.worker = w])
    /\ UNCHANGED <<cache, temp, loop, uuids, stored, call>>

\* health_check: subprocess.run(["ffmpeg", "-version"], timeout=5) starts
HealthStart(r, w) ==
    /\ req[r].pc = "h_wait"
    /\ req[r].worker = w
    /\ LoopFree(w)
    /\ LET rec == req[r]
       IN  \/ /\ Set(r, Fail(rec, 503, "unhealthy"))
              /\ UNCHANGED loop
           \/ /\ Set(r, [rec EXCEPT !.pc = "h_run"])
              /\ loop' = [loop EXCEPT ![w] = {r}]
    /\ UNCHANGED <<cache, temp, uuids, stored, call>>

\* health_check: ffmpeg exits, or the 5 s budget runs out
HealthReturn(r) ==
    /\ req[r].pc = "h_run"
    /\ loop[req[r].worker] = {r}
    /\ \/ Set(r, [req[r] EXCEPT !.pc = "done", !.status = 200, !.detail = "healthy"])
       \/ Set(r, Fail(req[r], 503, "unhealthy"))
    /\ Free(r)
    /\ UNCHANGED <<cache, temp, uuids, stored, call>>

(* ------------------------------ the system ----------------------------- *)
Next ==
    \/ \E r \in Requests, w \in Workers, c \in Contents, f \in Filenames :
            UploadStart(r, w, c, f)
    \/ \E r \in Requests : UploadOpen(r)
    \/ \E r \in Requests : UploadWrite(r)
    \/ \E r \in Requests, w \in Workers, c \in Bodies, f \in ConvertNames, o \in Formats :
            ConvertStart(r, w, c, f, o)
    \/ \E r \in Requests : ConvertStage(r)
    \/ \E r \in Requests : ConvertRun(r)
    \/ \E r \in Requests, w \in Workers, h \in Hashes, o \in Formats :
            HashStart(r, w, h, o)
    \/ \E r \in Requests : HashStage(r)
    \/ \E r \in Requests : HashRun(r)
    \/ \E r \in Requests : Transmit(r)
    \/ \E r \in Requests : Background(r)
    \/ \E r \in Requests, w \in Workers, h \in Hashes : DeleteStart(r, w, h)
    \/ \E r \in Requests : DeleteUnlink(r)
    \/ \E r \in Requests, w \in Workers : HealthArrive(r, w)
    \/ \E r \in Requests, w \in Workers : HealthStart(r, w)
    \/ \E r \in Requests : HealthReturn(r)

Spec == Init /\ [][Next]_vars

(* --------------------------- the command line ------------------------- *)
\* characters of an extra-argument string
Chars == {"a", "b", " ", "\t"}
Whitespace == {" ", "\t"}

RECURSIVE SeqsUpTo(_)
SeqsUpTo(n) ==
    IF n = 0 THEN {<<>>}
    ELSE LET shorter == SeqsUpTo(n - 1)
         IN  shorter \cup {Append(s, c) : s \in {t \in shorter : Len(t) = n - 1}, c \in Chars}

\* the values of the form field `params`
Params == SeqsUpTo(MaxParams)

RECURSIVE lstrip(_)
lstrip(s) == IF s = <<>> \/ Head(s) \notin Whitespace THEN s ELSE lstrip(Tail(s))

RECURSIVE word(_)
word(s) == IF s = <<>> \/ Head(s) \in Whitespace THEN <<>> ELSE <<Head(s)>> \o word(Tail(s))

RECURSIVE split_at_space(_)
split_at_space(s) ==
    IF s = <<>> THEN <<<<>>>>
    ELSE LET rest == split_at_space(Tail(s))
         IN  IF Head(s) = " " THEN <<<<>>>> \o rest
             ELSE <<<<Head(s)>> \o rest[1]>> \o Tail(rest)

\* params.split(): the runs of non-whitespace characters, in order
RECURSIVE split(_)
split(s) ==
    LET t == lstrip(s)
    IN  IF t = <<>> THEN <<>>
        ELSE LET w == word(t)
             IN  <<w>> \o split(SubSeq(t, Len(w) + 1, Len(t)))

\* cmd = ["ffmpeg", "-i", input_path]; if params: cmd.extend(params.split());
\* cmd.append(output_path)
build_cmd(input_path, params, output_path) ==
    LET cmd == <<"ffmpeg", "-i", input_path>>
        extended == IF params # <<>> THEN cmd \o split(params) ELSE cmd
    IN  Append(extended, output_path)

\* the calls of the command-line construction: by convert_video with the
\* input path it made, by convert_from_hash with the one it made
CmdCalls ==
    {[op |-> "convert_video", done |-> FALSE, cmd |-> <<>>, params |-> params,
      input_path |-> convert_input_path(101, input_extension(convert_filename(f, o))),
      output_path |-> make_output_path(101, o)] :
        params \in Params, f \in ConvertNames, o \in Formats}
    \cup
    {[op |-> "convert_from_hash", done |-> FALSE, cmd |-> <<>>, params |-> params,
      input_path |-> hash_input_path(101, source_path),
      output_path |-> make_output_path(101, o)] :
        params \in Params, source_path \in StoredNames, o \in Formats}

InitCmd ==
    /\ req = [r \in Requests |-> IdleReq]
    /\ cache = [p \in {} |-> <<>>]
    /\ temp = [p \in {} |-> <<>>]
    /\ loop = [w \in Workers |-> {}]
    /\ uuids = {101}
    /\ stored = {}
    /\ call \in CmdCalls

ConvertBuildCmd ==
    /\ call.op = "convert_video" /\ ~call.done
    /\ call' = [call EXCEPT !.done = TRUE,
                            !.cmd = build_cmd(call.input_path, call.params, call.output_path)]
    /\ UNCHANGED <<cache, temp, req, loop, uuids, stored>>

HashBuildCmd ==
    /\ call.op = "convert_from_hash" /\ ~call.done
    /\ call' = [call EXCEPT !.done = TRUE,
                            !.cmd = build_cmd(call.input_path, call.params, call.output_path)]
    /\ UNCHANGED <<cache, temp, req, loop, uuids, stored>>

NextCmd == ConvertBuildCmd \/ HashBuildCmd

SpecCmd == InitCmd /\ [][NextCmd]_vars

(* ------------------------------ the release ---------------------------- *)
\* the paths of one workspace, and None
ReleaseFiles == {convert_input_path(101, <<"a">>), make_output_path(101, <<"m", "p", "4">>)}
PathArgs == UNION {[1..n -> ReleaseFiles \cup {NoPath}] : n \in 0..MaxPaths}

\* cleanup_files_sync(*paths) called on its own: any arguments, any of the
\* files present, any of them impossible to remove
InitCleanup ==
    /\ req = [r \in Requests |-> IdleReq]
    /\ cache = [p \in {} |-> <<>>]
    /\ temp \in {[p \in present |-> <<0>>] : present \in SUBSET ReleaseFiles}
    /\ loop = [w \in Workers |-> {}]
    /\ uuids = {101}
    /\ stored = {}
    /\ \E paths \in PathArgs, undeletable \in SUBSET ReleaseFiles :
            call = [op |-> "cleanup_files_sync", paths |-> paths,
                    undeletable |-> undeletable, calls |-> 0, raised |-> FALSE,
                    start |-> temp, before |-> temp]

Release ==
    /\ call.op = "cleanup_files_sync"
    /\ call.calls = 0
    /\ LET outcome == cleanup_each(temp, call.paths, call.undeletable)
       IN  /\ temp' = outcome.fs
           /\ call' = [call EXCEPT !.calls = 1, !.raised = outcome.raised,
                                   !.before = temp]
    /\ UNCHANGED <<cache, req, loop, uuids, stored>>

ReleaseAgain ==
    /\ call.op = "cleanup_files_sync"
    /\ call.calls = 1
    /\ LET outcome == cleanup_each(temp, call.paths, call.undeletable)
       IN  /\ temp' = outcome.fs
           /\ call' = [call EXCEPT !.calls = 2, !.raised = @ \/ outcome.raised,
                                   !.before = temp]
    /\ UNCHANGED <<cache, req, loop, uuids, stored>>

NextCleanup == Release \/ ReleaseAgain

SpecCleanup == InitCleanup /\ [][NextCleanup]_vars

(* ------------------------------ vocabulary ----------------------------- *)
Job(r) == req[r].kind \in {"convert", "convert_hash"}
Allocated(r) == req[r].input_path # NoPath
Ended(r) == req[r].pc \in {"done", "error"}
Workspace(r) == {req[r].input_path, req[r].output_path}
InScratch(r) == Workspace(r) \cap DOMAIN temp

JobState(r) ==
    CASE req[r].pc \in {"cv_await", "ch_stage"} -> "STAGING"
      [] req[r].pc = "run" -> "RUNNING"
      [] req[r].pc \in {"delivering", "sent"} -> "DELIVERING"
      [] req[r].pc = "done" -> "DONE"
      [] req[r].pc = "error" -> "ERROR"
      [] OTHER -> "NONE"

FilesOf(video_hash) == {p \in DOMAIN cache : p[1] = video_hash}

(* -------------------------------- claims ------------------------------- *)
\* C1: a conversion job that has reached DONE or ERROR after allocating a
\* workspace has not released it more than once, and neither its input path
\* nor its output path exists in the scratch root.
C1_CleanupTotality ==
    \A r \in Requests :
        Job(r) /\ Allocated(r) /\ JobState(r) \in {"DONE", "ERROR"}
            => req[r].released <= 1 /\ InScratch(r) = {}

C4_StagingFailureReleased ==
    \A r \in Requests :
        Job(r) /\ Allocated(r) /\ req[r].exc # "none"
            => /\ req[r].detail = "str(e)"
               /\ req[r].released = 1
               /\ Workspace(r) \cap DOMAIN temp = {}

\* C5: a convert-by-identity request for an identity with no cached file is
\* answered NotFound, draws no job token, allocates no paths and leaves the
\* scratch root and the cache root unchanged.
C5_NotFoundStep(r) ==
    /\ req[r].pc = "idle"
    /\ req'[r].kind = "convert_hash"
    /\ FilesOf(req'[r].video_hash) = {}

C5_NotFoundNoAllocation ==
    [][\A r \in Requests :
            C5_NotFoundStep(r) =>
                /\ req'[r].pc = "error"
                /\ req'[r].status = 404
                /\ req'[r].input_path = NoPath
                /\ req'[r].output_path = NoPath
                /\ UNCHANGED <<cache, temp, uuids>>]_vars

C5_Witness ==
    \E r \in Requests :
        /\ req[r].kind = "convert_hash"
        /\ req[r].status = 404
        /\ ~Allocated(r)
        /\ DOMAIN cache # {}

\* C6: a delete for an identity with no stored file is answered NotFound and
\* leaves the cache unchanged; a delete that is answered with success has
\* removed every file it matched and reports their number, which is at least
\* one.
C6_DeleteContract ==
    [][\A r \in Requests :
            /\ (req[r].pc = "idle" /\ req'[r].kind = "delete"
                    /\ FilesOf(req'[r].video_hash) = {})
                => req'[r].status = 404 /\ cache' = cache
            /\ (req[r].pc = "del_unlink" /\ req'[r].pc = "done")
                => /\ req'[r].deleted = Cardinality(req[r].files)
                   /\ req'[r].deleted >= 1
                   /\ req[r].files \cap DOMAIN cache' = {}]_vars

\* C7: two uploads of the same bytes under the same extension that both
\* succeeded returned the same identity, and (unless a delete of that identity
\* was requested) the file of the pair is in the cache; the cache never holds
\* two files for one (identity, extension) pair.
Uploaded(r) == req[r].kind = "upload" /\ req[r].pc = "done"
DeleteRequested(video_hash) ==
    \E q \in Requests : req[q].kind = "delete" /\ req[q].video_hash = video_hash

C7_UploadIdempotent ==
    /\ \A r1, r2 \in Requests :
            Uploaded(r1) /\ Uploaded(r2) /\ req[r1].content = req[r2].content
                => /\ req[r1].video_hash = req[r2].video_hash
                   /\ (req[r1].ext = req[r2].ext /\ ~DeleteRequested(req[r1].video_hash))
                        => Cardinality({p \in DOMAIN cache :
                                p[1] = req[r1].video_hash /\ suffix(p) = req[r1].ext}) = 1
    /\ \A p, q \in DOMAIN cache : p[1] = q[1] /\ suffix(p) = suffix(q) => p = q

C7_Witness ==
    \E r1, r2 \in Requests :
        /\ r1 # r2
        /\ Uploaded(r1) /\ Uploaded(r2)
        /\ req[r1].content = req[r2].content
        /\ req[r1].ext = req[r2].ext
        /\ req[r1].worker # req[r2].worker

\* C8: the input and output paths of any two conversion jobs are four distinct
\* paths, and a step taken by one request changes no scratch path other than
\* the two of that request's own workspace.
PathsDistinct ==
    \A r1, r2 \in Requests :
        Job(r1) /\ Job(r2) /\ Allocated(r1) /\ Allocated(r2)
            => /\ req[r1].input_path # req[r1].output_path
               /\ r1 # r2 => Workspace(r1) \cap Workspace(r2) = {}

Touched ==
    {p \in DOMAIN temp \cup DOMAIN temp' :
        \/ p \notin DOMAIN temp
        \/ p \notin DOMAIN temp'
        \/ temp[p] # temp'[p]}

C8_WorkspaceIsolation ==
    [][/\ PathsDistinct'
       /\ \A r \in Requests :
            req'[r] # req[r] =>
                Touched \subseteq {req'[r].input_path, req'[r].output_path}]_vars

C8_Witness ==
    \E r1, r2 \in Requests :
        /\ r1 # r2
        /\ req[r1].kind = "convert" /\ req[r2].kind = "convert_hash"
        /\ JobState(r1) \in {"STAGING", "RUNNING", "DELIVERING"}
        /\ JobState(r2) \in {"STAGING", "RUNNING", "DELIVERING"}
        /\ Workspace(r1) \cup Workspace(r2) \subseteq DOMAIN temp

\* C9: a convert-by-identity job racing with a delete of its identity either
\* is answered NotFound without allocating, or stages its copy and is not
\* affected: it never fails because its source file is gone, and a job that
\* ended with no other fault leaves no scratch file behind.
C9_DeleteRaceHarmless ==
    \A r \in Requests :
        req[r].kind = "convert_hash" =>
            /\ req[r].status = 404 => ~Allocated(r)
            /\ req[r].exc # "open_source"
            /\ (Ended(r) /\ req[r].exc \in {"none", "open_source"}) => InScratch(r) = {}

\* C10: while the external tool of one job is running, every other request
\* that is in flight can take its next step, and the worker of the running job
\* can start the handler of a newly arrived request.
StepOf(q) ==
    \/ UploadOpen(q) \/ UploadWrite(q)
    \/ ConvertStage(q) \/ ConvertRun(q)
    \/ HashStage(q) \/ HashRun(q)
    \/ Transmit(q) \/ Background(q)
    \/ DeleteUnlink(q) \/ HealthStart(q, req[q].worker) \/ HealthReturn(q)

C10_ToolDoesNotBlock ==
    \A r \in Requests :
        Job(r) /\ JobState(r) = "RUNNING" =>
            /\ \A q \in Requests \ {r} :
                    req[q].pc \notin {"idle", "done", "error"} => ENABLED StepOf(q)
            /\ (\E q \in Requests : req[q].pc = "idle")
                    => ENABLED (\E q \in Requests, c \in Contents, f \in Filenames :
                                    UploadStart(q, req[r].worker, c, f))

C12_ProbeNeverHangs ==
    \A r \in Requests :
        req[r].kind = "health" =>
            /\ Ended(r) => \/ req[r].status = 200 /\ req[r].detail = "healthy"
                           \/ req[r].status = 503 /\ req[r].detail = "unhealthy"
            /\ req[r].pc = "h_run" => ENABLED HealthReturn(r)
            /\ req[r].pc = "h_wait" =>
                    \A j \in loop[req[r].worker] : req[j].pc # "run"

\* C13: no failure report of a request contains an internal filesystem path:
\* neither a path of the job's workspace nor the path of a cached file.
InternalPaths(r) ==
    (Workspace(r) \cup {req[r].source_path, req[r].file_path} \cup req[r].files)
        \ {NoPath}

C13_NoPathInFailureReport ==
    \A r \in Requests :
        req[r].pc = "error" => req[r].body.paths \cap InternalPaths(r) = {}

\* C14: a conversion job moves only along STAGING -> RUNNING -> DELIVERING ->
\* DONE, and to ERROR only from STAGING, RUNNING or DELIVERING; DONE and ERROR
\* are never left; and a job leaves RUNNING for DELIVERING exactly when the
\* exit status of the tool is zero, whatever the tool left at the output path.
\* The first step of a request is the beginning of its staging, so a job is
\* first seen in STAGING, or in ERROR when that beginning fails.
JobTransitions ==
    {<<"NONE", "STAGING">>, <<"NONE", "ERROR">>,
     <<"STAGING", "RUNNING">>, <<"RUNNING", "DELIVERING">>,
     <<"DELIVERING", "DONE">>,
     <<"STAGING", "ERROR">>, <<"RUNNING", "ERROR">>, <<"DELIVERING", "ERROR">>}

C14_Step ==
    \A r \in Requests :
        req'[r].kind \in {"convert", "convert_hash"} =>
            /\ \/ JobState(r)' = JobState(r)
               \/ <<JobState(r), JobState(r)'>> \in JobTransitions
            /\ JobState(r) = "RUNNING" /\ JobState(r)' # "RUNNING" =>
                    (JobState(r)' = "DELIVERING" <=> req'[r].result.returncode = 0)
            /\ JobState(r) # "DELIVERING" /\ JobState(r)' = "DELIVERING" =>
                    JobState(r) = "RUNNING"

C14_JobStateMachine == [][C14_Step]_vars

\* one job delivered after exit status 0, another ended in ERROR, released,
\* after a non-zero exit status
C14_Witness ==
    \E r, q \in Requests :
        /\ Job(r) /\ req[r].pc = "done" /\ req[r].result.returncode = 0
        /\ Job(q) /\ req[q].pc = "error" /\ req[q].result.returncode # 0
        /\ req[q].released = 1

\* C15: the input a convert-by-identity job has staged when the tool runs is
\* exactly the complete content whose digest is the requested identity, in
\* every interleaving with uploads and deletes.
C15_StagesCompleteBytes ==
    \A r \in Requests :
        req[r].kind = "convert_hash" /\ req[r].pc = "run" =>
            /\ req[r].input_path \in DOMAIN temp
            /\ temp[req[r].input_path] = ContentOf(req[r].video_hash)

\* C16: whenever no upload and no delete is under way, the cache holds a file
\* for identity h if and only if an upload of content with identity h has
\* completed since the last successful delete of h.
Quiescent ==
    \A r \in Requests : req[r].kind \in {"upload", "delete"} => Ended(r)

C16_CacheHoldsUploaded ==
    Quiescent => \A h \in Hashes : FilesOf(h) # {} <=> h \in stored

\* C17: a step of a convert or convert-by-identity request, on every path it
\* can take (staging, success, tool failure, error, deferred release), leaves
\* the files of the cache root and their contents as they were; a step of an
\* upload or delete request leaves the scratch root as it was.
C17_Step ==
    \A r \in Requests :
        req'[r] # req[r] =>
            /\ req'[r].kind \in {"convert", "convert_hash"} => cache' = cache
            /\ req'[r].kind \in {"upload", "delete"} => temp' = temp

C17_CacheScratchFrame == [][C17_Step]_vars

\* a convert-by-identity job released its workspace after a tool failure and
\* its source is still cached; a direct conversion ran to DONE
C17_Witness ==
    \E r, q \in Requests :
        /\ req[r].kind = "convert_hash" /\ req[r].pc = "error"
        /\ req[r].released = 1
        /\ req[r].source_path \in DOMAIN cache
        /\ req[q].kind = "convert" /\ req[q].pc = "done"

\* C18: the command line built for any input path, output path and
\* extra-argument string is: the tool name, the input flag, the input path,
\* then the maximal whitespace-free runs of the extra-argument string, each
\* verbatim and in the order they stand in the string, then the output path
\* as the last element; a string with no such run (the empty one included)
\* adds no element.
Runs(params) ==
    {<<i, j>> \in (1..Len(params)) \X (1..Len(params)) :
        /\ i <= j
        /\ \A k \in i..j : params[k] \notin Whitespace
        /\ i = 1 \/ params[i - 1] \in Whitespace
        /\ j = Len(params) \/ params[j + 1] \in Whitespace}

C18_CommandLine ==
    call.done =>
        LET cmd == call.cmd
            runs == Runs(call.params)
            n == Cardinality(runs)
        IN  /\ Len(cmd) = 4 + n
            /\ cmd[1] = "ffmpeg" /\ cmd[2] = "-i" /\ cmd[3] = call.input_path
            /\ cmd[Len(cmd)] = call.output_path
            /\ \A run \in runs :
                    LET before == Cardinality({other \in runs : other[1] < run[1]})
                    IN  cmd[4 + before] = SubSeq(call.params, run[1], run[2])

\* a string with leading whitespace and a tab between two tokens
C18_Witness ==
    /\ call.done
    /\ call.op = "convert_from_hash"
    /\ call.params = <<" ", "a", "\t", "b">>
    /\ Len(call.cmd) = 6
    /\ call.cmd[4] = <<"a">> /\ call.cmd[5] = <<"b">>

\* C19: a release never raises, whatever its arguments: paths that do not
\* exist, None, paths whose removal fails.  It removes the given files that
\* exist and can be removed and nothing else, and a second release of the same
\* arguments changes nothing and does not raise either.
Range(seq) == {seq[i] : i \in DOMAIN seq}

C19_ReleaseTotalIdempotent ==
    call.calls >= 1 =>
        /\ ~call.raised
        /\ temp = RemoveFiles(call.start, Range(call.paths) \ call.undeletable)
        /\ call.calls = 2 => temp = call.before

\* released twice with None, an absent path and a file that cannot be removed
C19_Witness ==
    /\ call.calls = 2
    /\ NoPath \in Range(call.paths)
    /\ \E path \in Range(call.paths) : path # NoPath /\ path \notin DOMAIN call.start
    /\ \E path \in Range(call.paths) : path \in DOMAIN temp /\ path \in call.undeletable

====
